---- MODULE Spec2Model ----
(***************************************************************************)
(* Model of the chord-sheet editor core (src/src/views/editor/editorCore.ts):*)
(* the operation coordinator (AtomEditOperation / AsyncAtomEditOperation), *)
(* the undo/redo bridge (UndoableEditor) and the structural editor         *)
(* (SheetEditorCore).                                                      *)
(*                                                                         *)
(* A document is the sequence of the root's children.  A node is a record  *)
(* [type, content, chord, children, mk].  The code addresses nodes by      *)
(* object reference; the model addresses a node by its path (the sequence  *)
(* of 1-based child indices from the root, <<>> being the root itself).    *)
(* A reference that a handler keeps in a local variable across calls that  *)
(* restructure the tree is modelled by a mark in the node's mk field, which*)
(* travels with the node; every stored tree has all marks cleared.         *)
(***************************************************************************)
EXTENDS Integers, Sequences, FiniteSets, TLC

\* ------------------------------------------------------------------ bounds
MaxNodes == 7
MaxHist == 2
MaxDepth == 2
MaxHandles == 1
NKeys == 2
LoopFuel == 8

\* editorCore.ts:8
MAX_UNDO_TIMES == 100

\* ------------------------------------------------------- node constructors
Node(t, c, k, ch) == [type |-> t, content |-> c, chord |-> k, children |-> ch, mk |-> {}]

createTextNode(c) == Node("Text", c, 0, <<>>)

createMarkNode(c) == Node("Mark", c, 0, <<>>)

createNewLineNode == Node("NewLine", <<>>, 0, <<>>)

createChordNode(c, k) == Node("Chord", c, k, <<>>)

PureChordNode(c, k) == Node("ChordPure", c, k, <<>>)

createUnderlineNode(isPure) == Node(IF isPure THEN "UnderlinePure" ELSE "Underline", <<>>, 0, <<>>)

WithChildren(n, ch) == [n EXCEPT !.children = ch]

RECURSIVE createTextNodes(_)
createTextNodes(s) ==
    IF s = <<>> THEN <<>> ELSE <<createTextNode(<<Head(s)>>)>> \o createTextNodes(Tail(s))

isChord(n) == n.type \in {"Chord", "ChordPure"}

isUnderline(n) == n.type \in {"Underline", "UnderlinePure"}

isPlaceholder(c) == c = <<"_">>

\* ------------------------------------------------------------ tree access
Parent(p) == SubSeq(p, 1, Len(p) - 1)

Last(p) == p[Len(p)]

Prefix(p, n) == SubSeq(p, 1, n)

IsProperPrefix(a, b) == Len(a) < Len(b) /\ Prefix(b, Len(a)) = a

RECURSIVE KidsAt(_, _)
KidsAt(kids, p) ==
    IF p = <<>> THEN kids ELSE KidsAt(kids[Head(p)].children, Tail(p))

NodeAt(kids, p) == KidsAt(kids, Parent(p))[Last(p)]

RECURSIVE SetKids(_, _, _)
SetKids(kids, p, new) ==
    IF p = <<>> THEN new
    ELSE [kids EXCEPT ![Head(p)] =
            WithChildren(kids[Head(p)], SetKids(kids[Head(p)].children, Tail(p), new))]

Splice(L, i, j, ins) == SubSeq(L, 1, i - 1) \o ins \o SubSeq(L, j + 1, Len(L))

RECURSIVE PathSeqFrom(_, _, _)
PathSeqFrom(kids, pre, i) ==
    IF i > Len(kids) THEN <<>>
    ELSE <<pre \o <<i>>>> \o PathSeqFrom(kids[i].children, pre \o <<i>>, 1)
                          \o PathSeqFrom(kids, pre, i + 1)

\* every node's path, in document (depth-first, pre-) order
PathSeq(kids) == PathSeqFrom(kids, <<>>, 1)

Paths(kids) == {PathSeq(kids)[i] : i \in 1..Len(PathSeq(kids))}

Size(kids) == Len(PathSeq(kids))

IndexIn(seq, x) == IF \E i \in 1..Len(seq) : seq[i] = x
                   THEN CHOOSE i \in 1..Len(seq) : seq[i] = x ELSE 0

\* NodeUtils.findNextNodeByType: the first node after p, in document order, of the type
findNextNodeByType(kids, p, t) ==
    LET ps == PathSeq(kids)
        k == IndexIn(ps, p)
        c == {i \in (k + 1)..Len(ps) : NodeAt(kids, ps[i]).type = t}
    IN IF c = {} THEN <<>> ELSE ps[CHOOSE i \in c : \A j \in c : i <= j]

findPrevNodeByType(kids, p, t) ==
    LET ps == PathSeq(kids)
        k == IndexIn(ps, p)
        c == {i \in 1..(k - 1) : NodeAt(kids, ps[i]).type = t}
    IN IF c = {} THEN <<>> ELSE ps[CHOOSE i \in c : \A j \in c : i >= j]

RECURSIVE LcpLen(_, _)
LcpLen(a, b) ==
    IF a = <<>> \/ b = <<>> \/ Head(a) # Head(b) THEN 0 ELSE 1 + LcpLen(Tail(a), Tail(b))

\* NodeUtils.commonAncestor of two distinct leaves
commonAncestor(p, q) == Prefix(p, LcpLen(p, q))

\* NodeUtils.parentUntil: the node on p's ancestor chain whose parent is anc
parentUntil(p, anc) == Prefix(p, Len(anc) + 1)

isInUnderline(kids, p) == \E n \in 1..(Len(p) - 1) : isUnderline(NodeAt(kids, Prefix(p, n)))

parentIsUnderline(kids, p) == Len(p) >= 2 /\ isUnderline(NodeAt(kids, Parent(p)))

isLastChild(kids, p) == Last(p) = Len(KidsAt(kids, Parent(p)))

isFirstChild(kids, p) == Last(p) = 1

\* the types of all nodes of a forest, and its leaves in document order
RECURSIVE TypesIn(_)
TypesIn(kids) ==
    IF kids = <<>> THEN {}
    ELSE {Head(kids).type} \cup TypesIn(Head(kids).children) \cup TypesIn(Tail(kids))

RECURSIVE Leaves(_)
Leaves(kids) ==
    IF kids = <<>> THEN <<>>
    ELSE (IF isUnderline(Head(kids)) THEN Leaves(Head(kids).children)
          ELSE <<[type |-> Head(kids).type, content |-> Head(kids).content]>>)
         \o Leaves(Tail(kids))

\* ------------------------------------------------------------------ marks
RECURSIVE ClearMarks(_)
ClearMarks(kids) ==
    [i \in 1..Len(kids) |->
        [kids[i] EXCEPT !.mk = {}, !.children = ClearMarks(kids[i].children)]]

SetMark(kids, p, m) ==
    LET L == KidsAt(kids, Parent(p))
    IN SetKids(kids, Parent(p), [L EXCEPT ![Last(p)].mk = L[Last(p)].mk \cup {m}])

RECURSIVE ClearMark(_, _)
ClearMark(kids, m) ==
    [i \in 1..Len(kids) |->
        [kids[i] EXCEPT !.mk = kids[i].mk \ {m}, !.children = ClearMark(kids[i].children, m)]]

Marked(kids, m) ==
    LET ps == PathSeq(kids)
        c == {i \in 1..Len(ps) : m \in NodeAt(kids, ps[i]).mk}
    IN IF c = {} THEN <<>> ELSE ps[CHOOSE i \in c : TRUE]

\* ---------------------------------------------------------------- results
\* what a handler's body does: returns normally with the tree as it left it (ok),
\* raises (~ok), or never returns (hang)
Ok(kids) == [ok |-> TRUE, hang |-> FALSE, tree |-> kids]

Fail(kids) == [ok |-> FALSE, hang |-> FALSE, tree |-> kids]

Hang(kids) == [ok |-> FALSE, hang |-> TRUE, tree |-> kids]

\* --------------------------------------------------- underline: add (277-379)
\* SheetEditorCore.__assertBeginAndEnd: both ends resolve, through nested
\* underlines, to a chord-family node
RECURSIVE ResolvesToChord(_, _)
ResolvesToChord(n, first) ==
    IF isChord(n) THEN TRUE
    ELSE IF isUnderline(n) /\ n.children # <<>>
         THEN ResolvesToChord(n.children[IF first THEN 1 ELSE Len(n.children)], first)
         ELSE FALSE

assertBeginAndEnd(nodes) ==
    ResolvesToChord(nodes[1], TRUE) /\ ResolvesToChord(nodes[Len(nodes)], FALSE)

\* which of the four structural cases applies to chord p and its next chord q
AddCase(p, q) ==
    IF Parent(p) = Parent(q) THEN "same"
    ELSE IF IsProperPrefix(Parent(q), p) THEN "forward"
    ELSE IF IsProperPrefix(Parent(p), q) THEN "backward"
    ELSE "merge"

\* the same-level wrap leaving the next chord outside the new underline
AddSameLevelShort(kids, p, q) ==
    LET L == KidsAt(kids, Parent(p))
        betweenNodes == SubSeq(L, Last(p), Last(q) - 1)
        underlineNode == WithChildren(createUnderlineNode(L[Last(p)].type = "ChordPure"),
                                      betweenNodes)
    IN Ok(SetKids(kids, Parent(p), Splice(L, Last(p), Last(q) - 1, <<underlineNode>>)))

AddSameLevel(kids, p, q) ==
    LET L == KidsAt(kids, Parent(p))
        betweenNodes == SubSeq(L, Last(p), Last(q))
        hasChord == "Chord" \in TypesIn(betweenNodes)
        hasPureChord == "ChordPure" \in TypesIn(betweenNodes)
        underlineNode == WithChildren(createUnderlineNode(hasPureChord), betweenNodes)
    IN IF Len(betweenNodes) < 2 THEN Fail(kids)
       ELSE IF ~assertBeginAndEnd(betweenNodes) THEN Fail(kids)
       ELSE IF hasChord /\ hasPureChord THEN Fail(kids)
       ELSE Ok(SetKids(kids, Parent(p), Splice(L, Last(p), Last(q), <<underlineNode>>)))

\* the forward extension putting the absorbed siblings in front of the underline's children
AddExtendForwardPrepend(kids, p, q) ==
    LET pp == Parent(q)
        L == KidsAt(kids, pp)
        a == Last(parentUntil(p, pp))
        betweenNodes == SubSeq(L, a + 1, Last(q))
        grown == WithChildren(L[a], betweenNodes \o L[a].children)
    IN Ok(SetKids(kids, pp, Splice(L, a, Last(q), <<grown>>)))

AddExtendForward(kids, p, q) ==
    LET pp == Parent(q)
        L == KidsAt(kids, pp)
        startUnderlinePath == parentUntil(p, pp)
        a == Last(startUnderlinePath)
        startUnderlineNode == L[a]
        betweenNodes == SubSeq(L, a + 1, Last(q))
        grown == WithChildren(startUnderlineNode, startUnderlineNode.children \o betweenNodes)
    IN IF startUnderlinePath = q THEN Fail(kids)
       ELSE IF ~isChord(NodeAt(kids, q)) THEN Fail(kids)
       ELSE Ok(SetKids(kids, pp, Splice(L, a, Last(q), <<grown>>)))

AddExtendBackward(kids, p, q) ==
    LET pp == Parent(p)
        L == KidsAt(kids, pp)
        endUnderlinePath == parentUntil(q, pp)
        e == Last(endUnderlinePath)
        endUnderlineNode == L[e]
        betweenNodes == SubSeq(L, Last(p), e - 1)
        grown == WithChildren(endUnderlineNode, betweenNodes \o endUnderlineNode.children)
    IN IF endUnderlinePath = p THEN Fail(kids)
       ELSE IF ~isChord(NodeAt(kids, p)) THEN Fail(kids)
       ELSE Ok(SetKids(kids, pp, Splice(L, Last(p), e, <<grown>>)))

AddMerge(kids, p, q) ==
    LET ca == commonAncestor(p, q)
        L == KidsAt(kids, ca)
        s0 == Last(parentUntil(p, ca))
        e0 == Last(parentUntil(q, ca))
        s == IF s0 > e0 THEN e0 ELSE s0
        e == IF s0 > e0 THEN s0 ELSE e0
        betweenNodes == SubSeq(L, s + 1, e - 1)
        mergedNode == WithChildren(createUnderlineNode(L[s].type = "UnderlinePure"),
                                   L[s].children \o betweenNodes \o L[e].children)
    IN IF ~(isUnderline(L[s0]) /\ isUnderline(L[e0])) THEN Fail(kids)
       ELSE IF s0 = e0 THEN Fail(kids)
       ELSE IF L[s0].type # L[e0].type THEN Fail(kids)
       ELSE Ok(SetKids(kids, ca, Splice(L, s, e, <<mergedNode>>)))

addUnderlineForChord(kids, p) ==
    LET chordNode == NodeAt(kids, p)
        q == findNextNodeByType(kids, p, chordNode.type)
    IN IF ~isChord(chordNode) THEN Fail(kids)
       ELSE IF q = <<>> THEN Fail(kids)
       ELSE CASE AddCase(p, q) = "same" -> AddSameLevel(kids, p, q)
              [] AddCase(p, q) = "forward" -> AddExtendForward(kids, p, q)
              [] AddCase(p, q) = "backward" -> AddExtendBackward(kids, p, q)
              [] OTHER -> AddMerge(kids, p, q)

\* ------------------------------------------------ underline: remove (384-477)
\* the chord and underline children of an underline, as indices into its children
AnchorIdx(L) == {i \in 1..Len(L) : isChord(L[i]) \/ isUnderline(L[i])}

RemoveCase(kids, p, q) ==
    LET isBegin == Last(p) = 1
        isEnd == isLastChild(kids, q)
    IN IF isBegin /\ isEnd THEN "dissolve"
       ELSE IF ~isBegin /\ isEnd THEN "tail"
       ELSE IF isBegin /\ ~isEnd THEN "head"
       ELSE "split"

RemoveDissolve(kids, ca) ==
    LET PL == KidsAt(kids, Parent(ca))
    IN Ok(SetKids(kids, Parent(ca), Splice(PL, Last(ca), Last(ca), NodeAt(kids, ca).children)))

\* the tail shrink slicing from the start node itself, so that it is moved out too
\* and kept
RemoveShrinkTailDup(kids, ca, s) ==
    LET PL == KidsAt(kids, Parent(ca))
        U == NodeAt(kids, ca)
        L == U.children
        slicedNodes == SubSeq(L, s, Len(L))
        shrunk == WithChildren(U, SubSeq(L, 1, s))
    IN Ok(SetKids(kids, Parent(ca),
                  Splice(PL, Last(ca), Last(ca), <<shrunk>> \o slicedNodes)))

RemoveShrinkTail(kids, ca, s) ==
    LET PL == KidsAt(kids, Parent(ca))
        U == NodeAt(kids, ca)
        L == U.children
        isLastAnchor == \A i \in AnchorIdx(L) : i <= s
        slicedNodes == SubSeq(L, s + 1, Len(L))
        shrunk == WithChildren(U, SubSeq(L, 1, s))
    IN IF ~(isUnderline(L[s]) \/ ~isLastAnchor) THEN Fail(kids)
       ELSE Ok(SetKids(kids, Parent(ca),
                       Splice(PL, Last(ca), Last(ca), <<shrunk>> \o slicedNodes)))

\* the head shrink moving the end node out as well
RemoveShrinkHeadIncl(kids, ca, e) ==
    LET PL == KidsAt(kids, Parent(ca))
        U == NodeAt(kids, ca)
        L == U.children
    IN Ok(SetKids(kids, Parent(ca),
                  Splice(PL, Last(ca), Last(ca),
                         SubSeq(L, 1, e) \o <<WithChildren(U, SubSeq(L, e + 1, Len(L)))>>)))

RemoveShrinkHead(kids, ca, e) ==
    LET PL == KidsAt(kids, Parent(ca))
        U == NodeAt(kids, ca)
        L == U.children
        isFirstAnchor == \A i \in AnchorIdx(L) : i >= e
        slicedNodes == SubSeq(L, 1, e - 1)
        shrunk == WithChildren(U, SubSeq(L, e, Len(L)))
    IN IF ~(isChord(L[e]) \/ isUnderline(L[e])) THEN Fail(kids)
       ELSE IF ~(isUnderline(L[e]) \/ ~isFirstAnchor) THEN Fail(kids)
       ELSE Ok(SetKids(kids, Parent(ca),
                       Splice(PL, Last(ca), Last(ca), slicedNodes \o <<shrunk>>)))

RemoveSplit(kids, ca, s0, e0) ==
    LET PL == KidsAt(kids, Parent(ca))
        U == NodeAt(kids, ca)
        L == U.children
        s == IF s0 > e0 THEN e0 ELSE s0
        e == IF s0 > e0 THEN s0 ELSE e0
        startIsFirstAnchor == \A i \in AnchorIdx(L) : i >= s
        endIsLastAnchor == \A i \in AnchorIdx(L) : i <= e
        betweenNodes == SubSeq(L, s + 1, e - 1)
        isPure == U.type = "UnderlinePure"
        leftUnderline == WithChildren(createUnderlineNode(isPure), SubSeq(L, 1, s))
        rightUnderline == WithChildren(createUnderlineNode(isPure), SubSeq(L, e, Len(L)))
    IN IF ~(isUnderline(L[s]) \/ ~startIsFirstAnchor) THEN Fail(kids)
       ELSE IF ~(isUnderline(L[e]) \/ ~endIsLastAnchor) THEN Fail(kids)
       ELSE Ok(SetKids(kids, Parent(ca),
                       Splice(PL, Last(ca), Last(ca),
                              <<leftUnderline>> \o betweenNodes \o <<rightUnderline>>)))

removeUnderlineFromChordToNext(kids, p) ==
    IF p = <<>> THEN Fail(kids)
    ELSE
    LET chordNode == NodeAt(kids, p)
        q == findNextNodeByType(kids, p, chordNode.type)
        ca == commonAncestor(p, q)
        s == Last(parentUntil(p, ca))
        e == Last(parentUntil(q, ca))
    IN IF ~isChord(chordNode) THEN Fail(kids)
       ELSE IF ~parentIsUnderline(kids, p) THEN Fail(kids)
       ELSE IF isLastChild(kids, p) THEN Fail(kids)
       ELSE IF q = <<>> THEN Fail(kids)
       ELSE IF ca = <<>> \/ ~isUnderline(NodeAt(kids, ca)) THEN Fail(kids)
       ELSE CASE RemoveCase(kids, p, q) = "dissolve" -> RemoveDissolve(kids, ca)
              [] RemoveCase(kids, p, q) = "tail" -> RemoveShrinkTail(kids, ca, s)
              [] RemoveCase(kids, p, q) = "head" -> RemoveShrinkHead(kids, ca, e)
              [] OTHER -> RemoveSplit(kids, ca, s, e)

\* ------------------------------------------- chained removal helpers (480-504)
\* the rest of a loop after one call returned r: go round again, or pass the failure on
RECURSIVE PrevLoop(_, _)
\* a loop whose body swallows the failure of the call and goes round again
PrevLoopNextSwallow(r, fuel) == PrevLoop(r.tree, fuel - 1)

PrevLoopNext(r, fuel) == IF r.ok THEN PrevLoop(r.tree, fuel - 1) ELSE r

PrevLoop(kids, fuel) ==
    IF ~parentIsUnderline(kids, Marked(kids, "c")) THEN Ok(kids)
    ELSE IF fuel = 0 THEN Hang(kids)
    ELSE PrevLoopNext(removeUnderlineFromChordToNext(kids, Marked(kids, "v")), fuel)

MarkPrev(kids, prev) == IF prev = <<>> THEN kids ELSE SetMark(kids, prev, "v")

Unmark(r, m) == [r EXCEPT !.tree = ClearMark(r.tree, m)]

removeUnderlineFromPrevToThisChord(kids, p) ==
    IF ~isChord(NodeAt(kids, p)) THEN Fail(kids)
    ELSE IF ~parentIsUnderline(kids, p) THEN Fail(kids)
    ELSE Unmark(Unmark(PrevLoop(MarkPrev(SetMark(kids, p, "c"),
                                         findPrevNodeByType(kids, p, NodeAt(kids, p).type)),
                                LoopFuel), "c"), "v")

RECURSIVE AllLoop(_, _)
AllLoopNext(r, fuel) == IF r.ok THEN AllLoop(r.tree, fuel - 1) ELSE r

AllLoopBody(kids, a) ==
    IF isLastChild(kids, a) THEN removeUnderlineFromPrevToThisChord(kids, a)
    ELSE removeUnderlineFromChordToNext(kids, a)

AllLoop(kids, fuel) ==
    IF ~parentIsUnderline(kids, Marked(kids, "a")) THEN Ok(kids)
    ELSE IF fuel = 0 THEN Hang(kids)
    ELSE AllLoopNext(AllLoopBody(kids, Marked(kids, "a")), fuel)

removeAllUnderlineOfChord(kids, p) ==
    IF ~isChord(NodeAt(kids, p)) THEN Fail(kids)
    ELSE Unmark(AllLoop(SetMark(kids, p, "a"), LoopFuel), "a")

\* ------------------------------------------- structural edit operations
insertAfterTarget(kids, p) ==
    LET up == {n \in 1..Len(p) :
                 \A m \in n..Len(p) : m > n =>
                     isLastChild(kids, Prefix(p, m)) /\ parentIsUnderline(kids, Prefix(p, m))}
    IN Prefix(p, CHOOSE n \in up : \A m \in up : n <= m)

\* insertAfter without the walk out of the underlines
insertAfterInPlace(kids, p, data) ==
    LET L == KidsAt(kids, Parent(p))
    IN Ok(SetKids(kids, Parent(p), Splice(L, Last(p) + 1, Last(p), data)))

insertAfter(kids, p, data) ==
    LET targetNode == insertAfterTarget(kids, p)
        L == KidsAt(kids, Parent(targetNode))
    IN Ok(SetKids(kids, Parent(targetNode), Splice(L, Last(targetNode) + 1, Last(targetNode), data)))

insertBeforeTarget(kids, p) ==
    LET up == {n \in 1..Len(p) :
                 \A m \in n..Len(p) : m > n =>
                     isFirstChild(kids, Prefix(p, m)) /\ parentIsUnderline(kids, Prefix(p, m))}
    IN Prefix(p, CHOOSE n \in up : \A m \in up : n <= m)

insertBefore(kids, p, data) ==
    LET targetNode == insertBeforeTarget(kids, p)
        L == KidsAt(kids, Parent(targetNode))
    IN Ok(SetKids(kids, Parent(targetNode), Splice(L, Last(targetNode), Last(targetNode) - 1, data)))

SetNode(kids, p, n) ==
    LET L == KidsAt(kids, Parent(p)) IN SetKids(kids, Parent(p), [L EXCEPT ![Last(p)] = n])

\* NodeUtils.replace / NodeUtils.removeFromParent
ReplaceNode(kids, p, nodes) ==
    LET L == KidsAt(kids, Parent(p)) IN SetKids(kids, Parent(p), Splice(L, Last(p), Last(p), nodes))

\* updateContent putting the remaining characters right behind the node, inside its parent
updateContentInPlace(kids, p, content) ==
    LET node == NodeAt(kids, p)
    IN IF node.type \notin {"Text", "Chord", "Mark"} \/ Len(content) = 0 THEN Fail(kids)
       ELSE IF node.type = "Mark" THEN Ok(SetNode(kids, p, [node EXCEPT !.content = content]))
       ELSE Ok(ReplaceNode(kids, p, <<[node EXCEPT !.content = <<Head(content)>>]>>
                                        \o createTextNodes(Tail(content))))

updateContent(kids, p, content) ==
    LET node == NodeAt(kids, p)
        edited == SetNode(kids, p, [node EXCEPT !.content = <<Head(content)>>])
    IN IF node.type \notin {"Text", "Chord", "Mark"} THEN Fail(kids)
       ELSE IF Len(content) = 0 THEN Fail(kids)
       ELSE IF node.type \in {"Text", "Chord"} /\ Len(node.content) # 1 THEN Fail(kids)
       ELSE IF node.type = "Mark" THEN Ok(SetNode(kids, p, [node EXCEPT !.content = content]))
       ELSE IF Len(content) > 1 THEN insertAfter(edited, p, createTextNodes(Tail(content)))
       ELSE Ok(edited)

replace(kids, p, newNode) == Ok(ReplaceNode(kids, p, <<newNode>>))

\* the part of a handler after its call of removeAllUnderlineOfChord returned r;
\* the handler's node is the one marked m
RemoveRest(r, m) == IF ~r.ok THEN r ELSE Ok(ReplaceNode(r.tree, Marked(r.tree, m), <<>>))

remove(kids, p) ==
    IF ~isChord(NodeAt(kids, p)) THEN Ok(ReplaceNode(kids, p, <<>>))
    ELSE RemoveRest(removeAllUnderlineOfChord(SetMark(kids, p, "n"), p), "n")

TextContent(c) == IF isPlaceholder(c) THEN <<" ">> ELSE c

ConvertToTextRest(r, removeEmptyNode) ==
    IF ~r.ok THEN r
    ELSE IF isPlaceholder(NodeAt(r.tree, Marked(r.tree, "t")).content) /\ removeEmptyNode
         THEN Ok(ReplaceNode(r.tree, Marked(r.tree, "t"), <<>>))
    ELSE replace(r.tree, Marked(r.tree, "t"),
                 createTextNode(TextContent(NodeAt(r.tree, Marked(r.tree, "t")).content)))

convertToText(kids, p, removeEmptyNode) ==
    IF ~isChord(NodeAt(kids, p)) THEN Fail(kids)
    ELSE ConvertToTextRest(removeAllUnderlineOfChord(SetMark(kids, p, "t"), p), removeEmptyNode)

ConvertChordToTextRest(r, removeEmptyNode) ==
    IF ~r.ok THEN r
    ELSE IF isPlaceholder(NodeAt(r.tree, Marked(r.tree, "t")).content) /\ removeEmptyNode
         THEN Ok(ReplaceNode(r.tree, Marked(r.tree, "t"), <<>>))
    ELSE Ok(ReplaceNode(r.tree, Marked(r.tree, "t"),
                        createTextNodes(TextContent(NodeAt(r.tree, Marked(r.tree, "t")).content))))

convertChordToText(kids, p, removeEmptyNode) ==
    IF ~isChord(NodeAt(kids, p)) THEN Fail(kids)
    ELSE ConvertChordToTextRest(removeAllUnderlineOfChord(SetMark(kids, p, "t"), p),
                                removeEmptyNode)

updateChord(kids, p, chord) == Ok(SetNode(kids, p, [NodeAt(kids, p) EXCEPT !.chord = chord]))

convertToChord(kids, p, chord) ==
    LET node == NodeAt(kids, p)
    IN IF isChord(node) THEN updateChord(kids, p, chord)
       ELSE IF node.type = "Text" THEN Ok(ReplaceNode(kids, p, <<createChordNode(node.content, chord)>>))
       ELSE Fail(kids)

\* the outermost underline on p's ancestor chain
TopUnderline(kids, p) ==
    Prefix(p, CHOOSE n \in 1..(Len(p) - 1) :
                /\ isUnderline(NodeAt(kids, Prefix(p, n)))
                /\ \A m \in 1..(n - 1) : ~isUnderline(NodeAt(kids, Prefix(p, m))))

RECURSIVE FlipNode(_, _)
FlipNode(n, toPure) ==
    LET t == IF toPure
             THEN (IF n.type = "Chord" THEN "ChordPure"
                   ELSE IF n.type = "Underline" THEN "UnderlinePure" ELSE n.type)
             ELSE (IF n.type = "ChordPure" THEN "Chord"
                   ELSE IF n.type = "UnderlinePure" THEN "Underline" ELSE n.type)
    IN [n EXCEPT !.type = t,
                 !.children = [i \in 1..Len(n.children) |-> FlipNode(n.children[i], toPure)]]

RECURSIVE HasNonEmptyText(_)
HasNonEmptyText(kids) ==
    IF kids = <<>> THEN FALSE
    ELSE \/ (Head(kids).type = "Text" /\ Head(kids).content # <<" ">>)
         \/ HasNonEmptyText(Head(kids).children)
         \/ HasNonEmptyText(Tail(kids))

SetType(kids, p, t) == SetNode(kids, p, [NodeAt(kids, p) EXCEPT !.type = t])

ToggleRest(r) ==
    IF ~r.ok THEN r ELSE Ok(SetType(r.tree, Marked(r.tree, "g"), "ChordPure"))

FlipTop(kids, top, toPure) == Ok(SetNode(kids, top, FlipNode(NodeAt(kids, top), toPure)))

toggleChordType(kids, p) ==
    IF NodeAt(kids, p).type = "Chord" THEN
        IF ~isInUnderline(kids, p) THEN Ok(SetType(kids, p, "ChordPure"))
        ELSE IF HasNonEmptyText(<<NodeAt(kids, TopUnderline(kids, p))>>)
             THEN ToggleRest(removeAllUnderlineOfChord(SetMark(kids, p, "g"), p))
        ELSE FlipTop(kids, TopUnderline(kids, p), TRUE)
    ELSE IF NodeAt(kids, p).type = "ChordPure" THEN
        IF ~isInUnderline(kids, p) THEN Ok(SetType(kids, p, "Chord"))
        ELSE FlipTop(kids, TopUnderline(kids, p), FALSE)
    ELSE Fail(kids)

\* prompt() returns the text typed, or nothing when cancelled or left empty
insert(kids, p, type, isBefore, text) ==
    LET newNodes == CASE type = "text" -> createTextNodes(text)
                      [] type = "space" -> createTextNodes(<<" ">>)
                      [] type = "mark" -> <<createMarkNode(text)>>
                      [] OTHER -> <<createNewLineNode>>
    IN IF type \notin {"text", "space", "mark", "newline"} THEN Fail(kids)
       ELSE IF type \in {"text", "mark"} /\ text = <<>> THEN Ok(kids)
       ELSE IF isBefore THEN insertBefore(kids, p, newNodes)
       ELSE insertAfter(kids, p, newNodes)

editTextWithNeighbor(kids, p, newText) ==
    LET L == KidsAt(kids, Parent(p))
        i == Last(p)
        a == CHOOSE n \in 1..i : /\ \A m \in n..(i - 1) : L[m].type = "Text"
                                 /\ (n = 1 \/ L[n - 1].type # "Text")
        b == CHOOSE n \in i..Len(L) : /\ \A m \in (i + 1)..n : L[m].type = "Text"
                                      /\ (n = Len(L) \/ L[n + 1].type # "Text")
    IN IF newText = <<>> THEN Ok(kids)
       ELSE Ok(SetKids(kids, Parent(p), Splice(L, a, b, createTextNodes(newText))))

\* Key.getOffset and Chord.shiftKey, with keys and chord roots taken modulo NKeys
getOffset(oldKey, newKey) == (newKey - oldKey + NKeys) % NKeys

shiftKey(chord, offset) == (chord + offset) % NKeys

RECURSIVE ShiftChords(_, _)
ShiftChords(kids, offset) ==
    [i \in 1..Len(kids) |->
        [kids[i] EXCEPT !.chord = IF isChord(kids[i]) THEN shiftKey(kids[i].chord, offset)
                                  ELSE kids[i].chord,
                        !.children = ShiftChords(kids[i].children, offset)]]

\* ------------------------------------------------ snapshot history (History<T>)
HistAdd(h, c, snap) ==
    LET t == SubSeq(h, 1, c) \o <<snap>>
    IN IF Len(t) > MAX_UNDO_TIMES THEN Tail(t) ELSE t

HistClear(seed) == <<seed>>

\* ------------------------------------------------------------------ state
VARIABLES
    root,       \* SheetEditorCore.root.children: the live document
    sheetKey,   \* SheetEditorCore.meta.sheetKey
    history,    \* UndoableEditor.history: the snapshots
    cursor,     \* the history's cursor (1-based)
    count,      \* AtomEditOperation.count
    depth,      \* number of run() frames on the call stack
    exc,        \* an exception is propagating through the run() frames
    handles,    \* AsyncAtomEditOperation.disposed of each handle runAsync returned
    lastCb,     \* which coordinator callback the last step invoked
    ev,         \* the last operation: its name, target, and whether it returned normally
    txRoot,     \* the live document when the counter last left zero (<<>> when it is zero)
    pre         \* pre[i]: the live document when the transaction that pushed history[i] began

vars == <<root, sheetKey, history, cursor, count, depth, exc, handles, lastCb, ev, txRoot, pre>>

\* ------------------------------------------------- coordinator (10-100)
\* endOperation without the test of the counter
endOperationEveryExit(c, failed) ==
    [count |-> c - 1, done |-> ~failed, failed |-> failed]

\* AtomEditOperation.endOperation from counter value c
endOperation(c, failed) ==
    [count |-> c - 1, done |-> (c - 1 = 0 /\ ~failed), failed |-> failed]

Event(op, p, ok) == [op |-> op, p |-> p, ok |-> ok]

TxStart == IF count = 0 THEN root ELSE txRoot

\* the callbacks endOperation invoked, applied to the editor: onDone = addHistory,
\* onFailed = retoreNewestHistory; t is the live tree the body left
Callbacks(t, cb) ==
    /\ count' = cb.count
    /\ root' = IF cb.failed THEN history[cursor] ELSE t
    /\ history' = IF cb.done THEN HistAdd(history, cursor, t) ELSE history
    /\ cursor' = IF cb.done THEN Len(HistAdd(history, cursor, t)) ELSE cursor
    /\ pre' = IF cb.done THEN HistAdd(pre, cursor, TxStart) ELSE pre
    /\ txRoot' = IF cb.count = 0 THEN <<>> ELSE TxStart
    /\ lastCb' = IF cb.failed THEN "failed" ELSE IF cb.done THEN "done" ELSE "none"

NoCallback ==
    /\ UNCHANGED <<root, history, cursor, pre>>
    /\ lastCb' = "none"

\* run(func): beginOperation
RunBegin ==
    /\ ~exc
    /\ depth < MaxDepth
    /\ depth' = depth + 1
    /\ count' = count + 1
    /\ txRoot' = TxStart
    /\ ev' = Event("run", <<>>, TRUE)
    /\ NoCallback
    /\ UNCHANGED <<sheetKey, exc, handles>>

\* run(func): func returns, the finally block runs endOperation(false)
RunReturn ==
    /\ ~exc
    /\ depth > 0
    /\ (count = 1 => cursor < MaxHist)
    /\ depth' = depth - 1
    /\ ev' = Event("return", <<>>, TRUE)
    /\ Callbacks(root, endOperation(count, FALSE))
    /\ UNCHANGED <<sheetKey, exc, handles>>

\* run(func): func throws, the finally block runs endOperation(true) and the
\* exception goes on to the enclosing frame
RunRaise ==
    /\ ~exc
    /\ depth > 0
    /\ depth' = depth - 1
    /\ exc' = (depth' > 0)
    /\ ev' = Event("raise", <<>>, FALSE)
    /\ Callbacks(root, endOperation(count, TRUE))
    /\ UNCHANGED <<sheetKey, handles>>

\* the exception leaves the next enclosing run() frame
Unwind ==
    /\ exc
    /\ depth > 0
    /\ depth' = depth - 1
    /\ exc' = (depth' > 0)
    /\ ev' = Event("unwind", <<>>, FALSE)
    /\ Callbacks(root, endOperation(count, TRUE))
    /\ UNCHANGED <<sheetKey, handles>>

\* runAsync() without beginOperation
RunAsyncNoBegin ==
    /\ ~exc
    /\ Len(handles) < MaxHandles
    /\ handles' = Append(handles, FALSE)
    /\ count' = count
    /\ txRoot' = TxStart
    /\ ev' = Event("runAsync", <<Len(handles) + 1>>, TRUE)
    /\ NoCallback
    /\ UNCHANGED <<sheetKey, depth, exc>>

\* runAsync(): beginOperation and a new handle
RunAsync ==
    /\ ~exc
    /\ Len(handles) < MaxHandles
    /\ handles' = Append(handles, FALSE)
    /\ count' = count + 1
    /\ txRoot' = TxStart
    /\ ev' = Event("runAsync", <<Len(handles) + 1>>, TRUE)
    /\ NoCallback
    /\ UNCHANGED <<sheetKey, depth, exc>>

\* end() without the one-shot guard
AsyncEndUnguarded(h) ==
    /\ ~exc
    /\ ev' = Event("end", <<h>>, TRUE)
    /\ handles' = [handles EXCEPT ![h] = TRUE]
    /\ Callbacks(root, endOperation(count, FALSE))
    /\ UNCHANGED <<sheetKey, depth, exc>>

\* AsyncAtomEditOperation.end
AsyncEnd(h) ==
    /\ ~exc
    /\ ev' = Event("end", <<h>>, TRUE)
    /\ IF ~handles[h]
       THEN /\ (count = 1 => cursor < MaxHist)
            /\ handles' = [handles EXCEPT ![h] = TRUE]
            /\ Callbacks(root, endOperation(count, FALSE))
       ELSE /\ NoCallback
            /\ UNCHANGED <<handles, count, txRoot>>
    /\ UNCHANGED <<sheetKey, depth, exc>>

\* fail() wired to the success callback
AsyncFailCommits(h) ==
    /\ ~exc
    /\ ev' = Event("fail", <<h>>, TRUE)
    /\ IF ~handles[h]
       THEN /\ handles' = [handles EXCEPT ![h] = TRUE]
            /\ Callbacks(root, endOperation(count, FALSE))
       ELSE /\ NoCallback
            /\ UNCHANGED <<handles, count, txRoot>>
    /\ UNCHANGED <<sheetKey, depth, exc>>

\* AsyncAtomEditOperation.fail
AsyncFail(h) ==
    /\ ~exc
    /\ ev' = Event("fail", <<h>>, TRUE)
    /\ IF ~handles[h]
       THEN /\ handles' = [handles EXCEPT ![h] = TRUE]
            /\ Callbacks(root, endOperation(count, TRUE))
       ELSE /\ NoCallback
            /\ UNCHANGED <<handles, count, txRoot>>
    /\ UNCHANGED <<sheetKey, depth, exc>>

\* AsyncAtomEditOperation.run(func), func being a body that edits the tree to
\* r.tree and returns (r.ok) or throws
AsyncRun(h, r) ==
    /\ ~exc
    /\ depth = 0
    /\ ~r.hang
    /\ ev' = Event("handleRun", <<h>>, handles[h] \/ r.ok)
    /\ IF handles[h]
       THEN /\ NoCallback
            /\ UNCHANGED <<handles, count, txRoot>>
       ELSE IF r.ok
       THEN /\ root' = ClearMarks(r.tree)
            /\ lastCb' = "none"
            /\ UNCHANGED <<handles, count, txRoot, history, cursor, pre>>
       ELSE /\ handles' = [handles EXCEPT ![h] = TRUE]
            /\ Callbacks(root, endOperation(count, TRUE))
    /\ UNCHANGED <<sheetKey, depth, exc>>

\* ------------------------------------------- a command: runAtomOperation(body)
\* the whole command runs as one step: beginOperation, the body with the
\* result r, endOperation in the finally block
Command(op, p, r) ==
    /\ ~exc
    /\ ~r.hang
    /\ Size(r.tree) <= MaxNodes
    /\ (r.ok /\ count = 0) => cursor < MaxHist
    /\ ev' = IF r.ok THEN Event(op, p, TRUE) ELSE Event("raised", <<>>, FALSE)
    /\ exc' = (~r.ok /\ depth > 0)
    /\ Callbacks(ClearMarks(r.tree), endOperation(count + 1, ~r.ok))
    /\ UNCHANGED <<sheetKey, depth, handles>>

\* ------------------------------------------------------------ the commands
TextNodeData == {<<createTextNode(<<"x">>)>>}

PromptTexts == {<<>>, <<"x", "y">>}

NewContents == {<<>>, <<"z">>, <<"z", "w">>}

NewNodes == {createTextNode(<<"r">>)}

NewChords == {1 % NKeys}

InsertTypes == {"text", "space", "mark", "newline", "image"}

Keys == 0..(NKeys - 1)

InsertAfter == \E p \in Paths(root), d \in TextNodeData :
    Command("insertAfter", p, insertAfter(root, p, d))

InsertBefore == \E p \in Paths(root), d \in TextNodeData :
    Command("insertBefore", p, insertBefore(root, p, d))

\* the event of a command whose prompt() gave nothing is named "<command>:cancel"
Insert == \E p \in Paths(root), t \in InsertTypes, b \in BOOLEAN :
    \E x \in (IF t \in {"text", "mark"} THEN PromptTexts ELSE {<<>>}) :
        Command(IF t \in {"text", "mark"} /\ x = <<>> THEN "insert:cancel" ELSE "insert",
                p, insert(root, p, t, b, x))

UpdateContent == \E p \in Paths(root), c \in NewContents :
    Command("updateContent", p, updateContent(root, p, c))

Replace == \E p \in Paths(root), n \in NewNodes :
    Command("replace", p, replace(root, p, n))

Remove == \E p \in Paths(root) :
    Command("remove", p, remove(root, p))

AddUnderlineForChord == \E p \in Paths(root) :
    Command("addUnderlineForChord", p, addUnderlineForChord(root, p))

RemoveUnderlineFromChordToNext == \E p \in Paths(root) :
    Command("removeUnderlineFromChordToNext", p, removeUnderlineFromChordToNext(root, p))

RemoveUnderlineFromPrevToThisChord == \E p \in Paths(root) :
    Command("removeUnderlineFromPrevToThisChord", p, removeUnderlineFromPrevToThisChord(root, p))

RemoveAllUnderlineOfChord == \E p \in Paths(root) :
    Command("removeAllUnderlineOfChord", p, removeAllUnderlineOfChord(root, p))

ConvertToText == \E p \in Paths(root), b \in BOOLEAN :
    Command("convertToText", p, convertToText(root, p, b))

ConvertChordToText == \E p \in Paths(root), b \in BOOLEAN :
    Command("convertChordToText", p, convertChordToText(root, p, b))

ConvertToChord == \E p \in Paths(root), k \in NewChords :
    Command("convertToChord", p, convertToChord(root, p, k))

ToggleChordType == \E p \in Paths(root) :
    Command("toggleChordType", p, toggleChordType(root, p))

EditTextWithNeighbor == \E p \in Paths(root), x \in PromptTexts :
    Command(IF x = <<>> THEN "editTextWithNeighbor:cancel" ELSE "editTextWithNeighbor",
            p, editTextWithNeighbor(root, p, x))

\* UndoableEditor.undo / redo: setFromHistory(history.goPrev() / goNext())
Undo ==
    /\ ~exc
    /\ cursor > 1
    /\ cursor' = cursor - 1
    /\ root' = history[cursor - 1]
    /\ ev' = Event("undo", <<>>, TRUE)
    /\ lastCb' = "none"
    /\ UNCHANGED <<sheetKey, history, count, depth, exc, handles, txRoot, pre>>

Redo ==
    /\ ~exc
    /\ cursor < Len(history)
    /\ cursor' = cursor + 1
    /\ root' = history[cursor + 1]
    /\ ev' = Event("redo", <<>>, TRUE)
    /\ lastCb' = "none"
    /\ UNCHANGED <<sheetKey, history, count, depth, exc, handles, txRoot, pre>>

\* SheetEditorCore.setKey: no transaction, no snapshot
SetKey(newKey, shiftChord) ==
    /\ ~exc
    /\ sheetKey' = newKey
    /\ root' = IF newKey # sheetKey /\ shiftChord
               THEN ShiftChords(root, getOffset(sheetKey, newKey)) ELSE root
    /\ ev' = Event("setKey", <<>>, TRUE)
    /\ lastCb' = "none"
    /\ UNCHANGED <<history, cursor, count, depth, exc, handles, txRoot, pre>>

\* replaceSheet pushing a snapshot whatever clearHistory says
ReplaceSheetKeepHistory(t, clone, clear) ==
    /\ ~exc
    /\ cursor < MaxHist
    /\ root' = t
    /\ history' = HistAdd(history, cursor, t)
    /\ cursor' = Len(HistAdd(history, cursor, t))
    /\ pre' = HistAdd(pre, cursor, root)
    /\ ev' = Event("replaceSheet", <<IF clear THEN 1 ELSE 0, Len(history)>>, TRUE)
    /\ lastCb' = "none"
    /\ UNCHANGED <<sheetKey, count, depth, exc, handles, txRoot>>

\* SheetEditorCore.replaceSheet; the event records clearHistory (1 or 0) and the
\* number of history entries at the call
ReplaceSheet(t, clone, clear) ==
    /\ ~exc
    /\ clear \/ cursor < MaxHist
    /\ root' = t
    /\ history' = IF clear THEN HistClear(t) ELSE HistAdd(history, cursor, t)
    /\ cursor' = IF clear THEN 1 ELSE Len(HistAdd(history, cursor, t))
    /\ pre' = IF clear THEN HistClear(t) ELSE HistAdd(pre, cursor, root)
    /\ ev' = Event("replaceSheet", <<IF clear THEN 1 ELSE 0, Len(history)>>, TRUE)
    /\ lastCb' = "none"
    /\ UNCHANGED <<sheetKey, count, depth, exc, handles, txRoot>>

\* SheetEditorCore.clearSheet
ClearSheet ==
    /\ ~exc
    /\ cursor < MaxHist
    /\ root' = <<>>
    /\ history' = HistAdd(history, cursor, <<>>)
    /\ cursor' = Len(HistAdd(history, cursor, <<>>))
    /\ pre' = HistAdd(pre, cursor, root)
    /\ ev' = Event("clearSheet", <<>>, TRUE)
    /\ lastCb' = "none"
    /\ UNCHANGED <<sheetKey, count, depth, exc, handles, txRoot>>

\* ------------------------------------------------------- initial documents
Ch(c) == createChordNode(<<c>>, 0)

Pu(c) == PureChordNode(<<c>>, 0)

Tx(c) == createTextNode(<<c>>)

Ul(ch) == WithChildren(createUnderlineNode(FALSE), ch)

Up(ch) == WithChildren(createUnderlineNode(TRUE), ch)

InitTrees == {
    <<Ch("a"), Ch("b"), Ch("c")>>,
    <<Ul(<<Ch("a"), Ch("b")>>), Ch("c")>>,
    <<Ul(<<Ch("a"), Ch("b")>>), Ul(<<Ch("c"), Ch("d")>>)>>,
    <<Ul(<<Ch("a"), Ch("b"), Ch("c")>>)>>,
    <<Ul(<<Ul(<<Ch("a"), Ch("b")>>), Ch("c")>>)>>,
    <<Ul(<<Ch("a"), Ch("b")>>), Pu("p"), Ch("c")>>,
    <<Ch("a"), Pu("p"), Ch("b")>>,
    <<Ch("a"), Ul(<<Ch("b"), Tx("t"), Ch("c")>>)>>,
    <<Ul(<<Ch("a"), Ch("b"), Ch("c"), Ch("d")>>)>>,
    <<Up(<<Pu("p"), Tx(" "), Pu("q")>>), Tx("t")>>,
    <<Tx("t"), Ch("_"), createMarkNode(<<"m", "k">>)>>,
    <<Ul(<<Ch("a"), Ch("b")>>), Tx("t"), Ul(<<Ch("c"), Ch("d")>>)>>,
    <<Ul(<<Ch("a"), Ch("b")>>), Pu("p"), Ch("c"), Up(<<Pu("q")>>)>>,
    <<Ul(<<Ch("a"), Ul(<<Ch("b"), Ch("c")>>)>>)>> }

InitWith(trees) ==
    /\ root \in trees
    /\ sheetKey = 0
    /\ history = <<root>>
    /\ cursor = 1
    /\ count = 0
    /\ depth = 0
    /\ exc = FALSE
    /\ handles = <<>>
    /\ lastCb = "none"
    /\ ev = Event("init", <<>>, TRUE)
    /\ txRoot = <<>>
    /\ pre = <<root>>

\* the structural editor: the commands that build and take apart underlines, with
\* undo and redo
Init == InitWith(InitTrees)

Next ==
    \/ Replace
    \/ Remove
    \/ AddUnderlineForChord
    \/ RemoveUnderlineFromChordToNext
    \/ RemoveUnderlineFromPrevToThisChord
    \/ RemoveAllUnderlineOfChord
    \/ ToggleChordType
    \/ Undo
    \/ Redo

Spec == Init /\ [][Next]_vars

\* the undo/redo bridge: commands, undo, redo, key shifts and whole-sheet replacement
HistTrees == {
    <<Ch("a"), Ch("b")>>,
    <<Ul(<<Ch("a"), Ch("b")>>), Tx("t")>> }

InitHist == InitWith(HistTrees)

NextHist ==
    \/ Remove
    \/ AddUnderlineForChord
    \/ ToggleChordType
    \/ Undo
    \/ Redo
    \/ \E k \in Keys, b \in BOOLEAN : SetKey(k, b)
    \/ \E t \in HistTrees, c \in BOOLEAN, h \in BOOLEAN : ReplaceSheet(t, c, h)
    \/ ClearSheet

SpecHist == InitHist /\ [][NextHist]_vars

\* the text commands: insertion, content edits and chord/text conversion
TextTrees == {
    <<Ul(<<Ch("a"), Ch("b")>>), Tx("t"), Pu("p")>>,
    <<Ul(<<Ul(<<Ch("a"), Ch("b")>>), Ch("c")>>), Tx("t")>>,
    <<Tx("t"), Tx("u"), Ch("_"), createMarkNode(<<"m", "k">>), Ch("a")>>,
    <<Ch("a"), Up(<<Pu("p"), Tx(" "), Pu("q")>>)>> }

InitText == InitWith(TextTrees)

NextText ==
    \/ UpdateContent
    \/ ConvertToText
    \/ ConvertChordToText
    \/ ConvertToChord
    \/ Undo
    \/ Redo

SpecText == InitText /\ [][NextText]_vars


\* insertion commands
InsertTrees == {
    <<Ul(<<Ch("a"), Ul(<<Ch("b"), Ch("c")>>)>>), Tx("t")>>,
    <<Ul(<<Ul(<<Ch("a"), Ch("b")>>), Ch("c")>>), Tx("t"), Tx("u")>>,
    <<Tx("t"), Tx("u"), Ch("a"), Up(<<Pu("p"), Tx(" "), Pu("q")>>)>> }

InitInsert == InitWith(InsertTrees)

NextInsert ==
    \/ InsertAfter
    \/ InsertBefore
    \/ Insert
    \/ EditTextWithNeighbor
    \/ Undo
    \/ Redo

SpecInsert == InitInsert /\ [][NextInsert]_vars

\* the coordinator: nested run() frames and deferred handles around commands
TxTrees == { <<Ul(<<Ch("a"), Ch("b")>>)>> }

InitTx == InitWith(TxTrees)

\* what the func given to a handle's run() may do: throw, or remove a node
HandleBodies == {Fail(root)} \cup {remove(root, p) : p \in Paths(root)}

NextTx ==
    \/ RunBegin
    \/ RunReturn
    \/ RunRaise
    \/ Unwind
    \/ RunAsync
    \/ \E h \in 1..Len(handles) : AsyncEnd(h)
    \/ \E h \in 1..Len(handles) : AsyncFail(h)
    \/ \E h \in 1..Len(handles), r \in HandleBodies : AsyncRun(h, r)
    \/ Remove
    \/ RemoveUnderlineFromChordToNext

SpecTx == InitTx /\ [][NextTx]_vars

\* =================================================================== claims
\* I1, the anchor rule: both ends of every underline resolve to a chord-family node
RECURSIVE AnchorOk(_, _)
AnchorOk(n, first) ==
    IF isUnderline(n)
    THEN n.children # <<>> /\ AnchorOk(n.children[IF first THEN 1 ELSE Len(n.children)], first)
    ELSE n.type \in {"Chord", "ChordPure"}

I1Holds(kids) ==
    \A p \in Paths(kids) :
        isUnderline(NodeAt(kids, p)) =>
            AnchorOk(NodeAt(kids, p), TRUE) /\ AnchorOk(NodeAt(kids, p), FALSE)

\* I2, the purity rule: no underline holds chords of both purities, and its tag is
\* that of the chords under it
I2Holds(kids) ==
    \A p \in Paths(kids) :
        LET n == NodeAt(kids, p)
            below == TypesIn(n.children)
        IN /\ n.type = "Underline" => below \cap {"ChordPure", "UnderlinePure"} = {}
           /\ n.type = "UnderlinePure" => below \cap {"Chord", "Underline"} = {}

\* C1: with no action raising, the commit callback runs only in a step that brings
\* the counter to zero; the run() frame whose exit brings it to zero commits exactly
\* one snapshot of the live tree, and a frame that exits with the counter still
\* positive commits nothing.
C1_CommitOnceAtOutermostExit ==
    [][ /\ lastCb' = "done" => count' = 0
        /\ (ev'.op = "return" /\ count' = 0) =>
              /\ lastCb' = "done"
              /\ history' = SubSeq(history, 1, cursor) \o <<root>>
              /\ cursor' = cursor + 1
        /\ (ev'.op = "return" /\ count' > 0) =>
              /\ lastCb' = "none"
              /\ history' = history /\ cursor' = cursor ]_vars

\* an outermost frame returned after an edit made inside it, and committed it
C1_Witness ==
    /\ ev.op = "return" /\ count = 0 /\ depth = 0 /\ lastCb = "done"
    /\ cursor = 2 /\ history[2] = root /\ root # history[1]

\* C2: when an action raises inside nested run() frames, the rollback callback runs
\* only when the outermost frame exits, never at the exit of an inner frame, and the
\* commit callback does not run.
C2_RollbackOnlyAtOutermostExit ==
    ev.op \in {"raise", "unwind"} => (lastCb # "done" /\ (lastCb = "failed" => depth = 0))

\* C3: an outermost transaction that raises leaves the live tree, the history and the
\* cursor as they were immediately before it began.
C3_FailedTransactionChangesNothing ==
    [][ (ev'.op = "raised" /\ count = 0) =>
            (root' = root /\ history' = history /\ cursor' = cursor) ]_vars

\* C4: undo yields the live tree as it was when the transaction it undoes began (so
\* N undos after N transactions yield the tree before the sequence, passing through
\* the tree after each prefix), and redo yields the tree that transaction committed.
C4_UndoRestoresTreeBeforeTransaction ==
    [][ /\ ev'.op = "undo" => root' = pre[cursor]
        /\ ev'.op = "redo" => root' = history[cursor + 1] ]_vars

\* C5: I1 holds of the live tree whenever no transaction is open.
C5_AnchorRuleInvariant == count = 0 => I1Holds(root)

\* C6: I2 holds of the live tree whenever no transaction is open.
C6_PurityRuleInvariant == count = 0 => I2Holds(root)

\* C7: every addUnderlineForChord and every removeUnderlineFromChordToNext that
\* returns normally leaves the document-order sequence of leaves (type and content)
\* as it was.
C7_LeafSequencePreserved ==
    \A p \in Paths(root) :
        /\ addUnderlineForChord(root, p).ok =>
              Leaves(addUnderlineForChord(root, p).tree) = Leaves(root)
        /\ removeUnderlineFromChordToNext(root, p).ok =>
              Leaves(removeUnderlineFromChordToNext(root, p).tree) = Leaves(root)

\* a removal has restructured a document of at least three leaves
C7_Witness ==
    /\ ev.op = "removeUnderlineFromChordToNext" /\ ev.ok
    /\ cursor = 2 /\ root # history[1]
    /\ Leaves(root) = Leaves(history[1]) /\ Len(Leaves(root)) >= 3

\* C8: on a handle, the first end()/fail(), or the first run() whose func raises,
\* disposes the handle and decrements the counter by one; every later end(), fail()
\* or run() on it changes nothing and does not execute func.
C8_HandleOneShot ==
    [][ (ev'.op \in {"end", "fail", "handleRun"}) =>
          LET h == ev'.p[1]
          IN /\ handles[h] =>
                  /\ UNCHANGED <<root, history, cursor, count, handles, depth, sheetKey>>
                  /\ lastCb' = "none"
             /\ (~handles[h] /\ ev'.op = "end") =>
                  /\ handles'[h] /\ count' = count - 1 /\ lastCb' # "failed"
             /\ (~handles[h] /\ ev'.op = "fail") =>
                  /\ handles'[h] /\ count' = count - 1 /\ lastCb' = "failed"
             /\ (~handles[h] /\ ev'.op = "handleRun" /\ ~ev'.ok) =>
                  /\ handles'[h] /\ count' = count - 1 /\ lastCb' = "failed"
             /\ (~handles[h] /\ ev'.op = "handleRun" /\ ev'.ok) =>
                  /\ handles' = handles /\ count' = count /\ lastCb' = "none" ]_vars

\* end() was called on a handle already disposed: the counter is zero and nothing
\* was committed by the call
C8_Witness ==
    /\ ev.op = "end" /\ handles[ev.p[1]]
    /\ count = 0 /\ depth = 0 /\ lastCb = "none"

\* the inclusive sibling range [p..q] wrapped in one new underline of p's purity
SameLevelWrapped(kids, p, q) ==
    LET L == KidsAt(kids, Parent(p))
        u == [type |-> IF NodeAt(kids, p).type = "ChordPure" THEN "UnderlinePure"
                       ELSE "Underline",
              content |-> <<>>, chord |-> 0, mk |-> {},
              children |-> SubSeq(L, Last(p), Last(q))]
    IN SetKids(kids, Parent(p),
               SubSeq(L, 1, Last(p) - 1) \o <<u>> \o SubSeq(L, Last(q) + 1, Len(L)))

OtherPurity(t) == IF t = "Chord" THEN "ChordPure" ELSE "Chord"

\* C9 as stated: whenever chord p and its next same-purity chord have the same
\* parent, addUnderlineForChord(p) returns with the range wrapped.
C9_SameLevelAlwaysWraps ==
    \A p \in Paths(root) :
        LET q == findNextNodeByType(root, p, NodeAt(root, p).type)
        IN (isChord(NodeAt(root, p)) /\ q # <<>> /\ Parent(p) = Parent(q)) =>
              /\ addUnderlineForChord(root, p).ok
              /\ addUnderlineForChord(root, p).tree = SameLevelWrapped(root, p, q)

\* C9 amended: whenever chord p and its next same-purity chord q have the same
\* parent and no node of the range [p..q], nested ones included, is a chord of the
\* other purity, addUnderlineForChord(p) replaces the range by one new underline of
\* p's purity holding exactly the range, every other node staying in place; when the
\* range does hold a chord of the other purity the command raises.
C9_SameLevelWrapsPureRange ==
    \A p \in Paths(root) :
        LET q == findNextNodeByType(root, p, NodeAt(root, p).type)
            range == SubSeq(KidsAt(root, Parent(p)), Last(p), Last(q))
        IN (isChord(NodeAt(root, p)) /\ q # <<>> /\ Parent(p) = Parent(q)) =>
              IF OtherPurity(NodeAt(root, p).type) \in TypesIn(range)
              THEN ~addUnderlineForChord(root, p).ok
              ELSE /\ addUnderlineForChord(root, p).ok
                   /\ addUnderlineForChord(root, p).tree = SameLevelWrapped(root, p, q)

\* siblings a b c became Underline[a, b], c by addUnderlineForChord(a)
C9_Witness ==
    /\ ev.op = "addUnderlineForChord" /\ ev.p = <<1>> /\ cursor = 2
    /\ history[1] = <<Ch("a"), Ch("b"), Ch("c")>>
    /\ root = <<Ul(<<Ch("a"), Ch("b")>>), Ch("c")>>

C11_Merge ==
    \A p \in Paths(root) :
        LET q == findNextNodeByType(root, p, NodeAt(root, p).type)
            n == LcpLen(p, q)
            L == KidsAt(root, Prefix(p, n))
            s == p[n + 1]
            e == q[n + 1]
            merged == [type |-> L[s].type, content |-> <<>>, chord |-> 0, mk |-> {},
                       children |-> L[s].children \o SubSeq(L, s + 1, e - 1)
                                        \o L[e].children]
        IN (isChord(NodeAt(root, p)) /\ q # <<>> /\ Len(p) > n + 1 /\ Len(q) > n + 1) =>
              /\ addUnderlineForChord(root, p).ok
              /\ addUnderlineForChord(root, p).tree =
                    SetKids(root, Prefix(p, n),
                            SubSeq(L, 1, s - 1) \o <<merged>> \o SubSeq(L, e + 1, Len(L)))

\* an underline whose children are exactly three chord leaves of one purity
ThreeChords(n) ==
    /\ isUnderline(n) /\ Len(n.children) = 3
    /\ \E t \in {"Chord", "ChordPure"} : \A i \in 1..3 : n.children[i].type = t

\* the tree in which the node at path u is replaced, in its parent, by nodes
ReplacedBy(kids, u, nodes) ==
    LET PL == KidsAt(kids, Parent(u))
    IN SetKids(kids, Parent(u),
               SubSeq(PL, 1, Last(u) - 1) \o nodes \o SubSeq(PL, Last(u) + 1, Len(PL)))

\* C12 as stated: on Underline[C1, C2, C3], removeUnderlineFromChordToNext(C1)
\* yields Underline[C1, C2] followed by C3.
C12_RemoveFirstShrinksTail ==
    \A u \in Paths(root) :
        LET U == NodeAt(root, u)
            r == removeUnderlineFromChordToNext(root, u \o <<1>>)
        IN ThreeChords(U) =>
              /\ r.ok
              /\ r.tree = ReplacedBy(root, u,
                              <<[U EXCEPT !.children = SubSeq(U.children, 1, 2)],
                                U.children[3]>>)

\* C12 amended: on Underline[C1, C2, C3], removeUnderlineFromChordToNext(C1)
\* yields C1 followed by Underline[C2, C3]: C1 is moved out in front of the
\* underline, C2 and C3 stay grouped.
C12_RemoveFirstShrinksHead ==
    \A u \in Paths(root) :
        LET U == NodeAt(root, u)
            r == removeUnderlineFromChordToNext(root, u \o <<1>>)
        IN ThreeChords(U) =>
              /\ r.ok
              /\ r.tree = ReplacedBy(root, u,
                              <<U.children[1],
                                [U EXCEPT !.children = SubSeq(U.children, 2, 3)]>>)

\* Underline[a, b, c] became a, Underline[b, c] by removeUnderlineFromChordToNext(a)
C12_Witness ==
    /\ ev.op = "removeUnderlineFromChordToNext" /\ ev.p = <<1, 1>> /\ cursor = 2
    /\ history[1] = <<Ul(<<Ch("a"), Ch("b"), Ch("c")>>)>>
    /\ root = <<Ch("a"), Ul(<<Ch("b"), Ch("c")>>)>>

\* the node after which insertAfter splices: p, or the outermost enclosing underline
\* reached from p through last children
RECURSIVE OutwardLast(_, _)
OutwardLast(kids, p) ==
    IF Len(p) > 1 /\ Last(p) = Len(KidsAt(kids, Parent(p)))
            /\ NodeAt(kids, Parent(p)).type \in {"Underline", "UnderlinePure"}
    THEN OutwardLast(kids, Parent(p))
    ELSE p

\* one Text node per character of s after the first
RestAsText(s) == [i \in 1..(Len(s) - 1) |-> createTextNode(<<s[i + 1]>>)]

\* kids with the content of the node at p set to the first character of s
FirstStored(kids, p, s) ==
    LET L == KidsAt(kids, Parent(p))
    IN SetKids(kids, Parent(p), [L EXCEPT ![Last(p)].content = <<s[1]>>])

\* kids with nodes spliced in right behind the node at path t
SplicedAfter(kids, t, nodes) ==
    LET L == KidsAt(kids, Parent(t))
    IN SetKids(kids, Parent(t),
               SubSeq(L, 1, Last(t)) \o nodes \o SubSeq(L, Last(t) + 1, Len(L)))

\* C13 as stated: updateContent(node, s) on a Text, Chord or ChordPure node, with
\* s not empty, stores s[0] in the node and inserts the rest of s as one-character
\* Text nodes, in order, as siblings right behind the node.
C13_UpdateContentSplitsInPlace ==
    \A p \in Paths(root), s \in NewContents :
        (NodeAt(root, p).type \in {"Text", "Chord", "ChordPure"} /\ Len(s) >= 1) =>
            /\ updateContent(root, p, s).ok
            /\ updateContent(root, p, s).tree =
                  SplicedAfter(FirstStored(root, p, s), p, RestAsText(s))

\* C13 amended: updateContent(node, s) on a Text or Chord node, with s not empty,
\* stores s[0] in the node and inserts the rest of s as one-character Text nodes, in
\* order, right behind the node, or, when the node is the last child of an underline,
\* right behind the outermost underline reached from it through last children; on a
\* ChordPure node it raises.
C13_UpdateContentSplits ==
    \A p \in Paths(root), s \in NewContents :
        Len(s) >= 1 =>
            /\ NodeAt(root, p).type \in {"Text", "Chord"} =>
                  /\ updateContent(root, p, s).ok
                  /\ updateContent(root, p, s).tree =
                        SplicedAfter(FirstStored(root, p, s), OutwardLast(root, p),
                                     RestAsText(s))
            /\ NodeAt(root, p).type = "ChordPure" => ~updateContent(root, p, s).ok

\* the last chord of an underline was given two characters: the second one is a Text
\* node behind the underline
C13_Witness ==
    /\ ev.op = "updateContent" /\ ev.p = <<1, 2>> /\ cursor = 2
    /\ history[1] = <<Ul(<<Ch("a"), Ch("b")>>), Tx("t"), Pu("p")>>
    /\ root = <<Ul(<<Ch("a"), Ch("z")>>), Tx("w"), Tx("t"), Pu("p")>>

\* C14: replaceSheet(root, clone, true) leaves a history of exactly one snapshot, equal
\* to the new tree, with the cursor on it, so that neither undo nor redo is possible;
\* a command that raises right after it leaves the new tree, the history and the
\* cursor as they are.
C14_ReplaceSheetClearsHistory ==
    [][ /\ (ev'.op = "replaceSheet" /\ ev'.p[1] = 1) =>
              /\ root' \in HistTrees
              /\ history' = <<root'>>
              /\ cursor' = 1
              /\ ~(cursor' > 1) /\ ~(cursor' < Len(history'))
        /\ (ev.op = "replaceSheet" /\ ev.p[1] = 1 /\ ev'.op = "raised") =>
              /\ root' = root
              /\ history' = <<root>>
              /\ cursor' = 1 ]_vars

\* a history of two entries was replaced by the single baseline
C14_Witness ==
    /\ ev.op = "replaceSheet" /\ ev.p = <<1, 2>>
    /\ history = <<root>> /\ cursor = 1

\* C15: insert(node, "text" | "mark", ...) and editTextWithNeighbor(node) whose prompt
\* is cancelled or left empty return without raising and without rollback, and leave
\* the tree, the history and the cursor as they were.
C15_CancelChangesNothing ==
    [][ ev'.op \in {"insert:cancel", "editTextWithNeighbor:cancel"} =>
            /\ lastCb' # "failed"
            /\ root' = root
            /\ history' = history
            /\ cursor' = cursor ]_vars

\* C16: on a tree satisfying I1 and I2, addUnderlineForChord returns normally only
\* when the tree it produces satisfies I1 and I2 again: in each of its four cases it
\* raises when the underline produced would hold both a Chord and a ChordPure or
\* would not begin and end with a chord.
C16_AddRejectsMixedOrUnanchored ==
    \A p \in Paths(root) :
        (I1Holds(root) /\ I2Holds(root) /\ addUnderlineForChord(root, p).ok) =>
            /\ I1Holds(addUnderlineForChord(root, p).tree)
            /\ I2Holds(addUnderlineForChord(root, p).tree)

\* C17: on a tree satisfying I1 and I2, when removeUnderlineFromChordToNext(p) passes
\* its preconditions and, in the nearest common underline U of p and its next
\* same-purity chord, the child on the way to p is U's first child and the child on
\* the way to the next chord is U's last child, U is replaced in its parent by its
\* own children.
C17_DissolveWhenBothBoundaries ==
    \A p \in Paths(root) :
        LET q == findNextNodeByType(root, p, NodeAt(root, p).type)
            n == LcpLen(p, q)
            U == NodeAt(root, Prefix(p, n))
        IN (/\ I1Holds(root) /\ I2Holds(root)
            /\ isChord(NodeAt(root, p)) /\ Len(p) > 1 /\ isUnderline(NodeAt(root, Parent(p)))
            /\ Last(p) < Len(KidsAt(root, Parent(p)))
            /\ q # <<>> /\ n >= 1 /\ isUnderline(U)
            /\ p[n + 1] = 1 /\ q[n + 1] = Len(U.children)) =>
              /\ removeUnderlineFromChordToNext(root, p).ok
              /\ removeUnderlineFromChordToNext(root, p).tree =
                    ReplacedBy(root, Prefix(p, n), U.children)

\* C18: when removeUnderlineFromChordToNext(p) passes its preconditions and, in the
\* nearest common underline U of p and its next same-purity chord, the child on the
\* way to p is not U's first child and the child on the way to the next chord is not
\* U's last child, U is replaced in its parent by a new underline of U's type holding
\* U's children up to and including the former, the children strictly between the
\* two, and a new underline of U's type holding U's children from the latter onward;
\* both new underlines begin and end with a chord.
C18_Split ==
    \A p \in Paths(root) :
        LET q == findNextNodeByType(root, p, NodeAt(root, p).type)
            n == LcpLen(p, q)
            U == NodeAt(root, Prefix(p, n))
            s == p[n + 1]
            e == q[n + 1]
            left == [type |-> U.type, content |-> <<>>, chord |-> 0, mk |-> {},
                     children |-> SubSeq(U.children, 1, s)]
            right == [type |-> U.type, content |-> <<>>, chord |-> 0, mk |-> {},
                      children |-> SubSeq(U.children, e, Len(U.children))]
        IN (/\ isChord(NodeAt(root, p)) /\ Len(p) > 1 /\ isUnderline(NodeAt(root, Parent(p)))
            /\ Last(p) < Len(KidsAt(root, Parent(p)))
            /\ q # <<>> /\ n >= 1 /\ isUnderline(U)
            /\ s > 1 /\ e < Len(U.children)) =>
              /\ removeUnderlineFromChordToNext(root, p).ok
              /\ removeUnderlineFromChordToNext(root, p).tree =
                    ReplacedBy(root, Prefix(p, n),
                               <<left>> \o SubSeq(U.children, s + 1, e - 1) \o <<right>>)
              /\ AnchorOk(left, TRUE) /\ AnchorOk(left, FALSE)
              /\ AnchorOk(right, TRUE) /\ AnchorOk(right, FALSE)

\* the result r of a command run on a tree in which the chord was marked "x": it
\* returned, and the chord's parent is no underline
StrippedOk(r) ==
    /\ r.ok /\ ~r.hang
    /\ ~parentIsUnderline(r.tree, Marked(r.tree, "x"))

\* C19: for every chord of a tree satisfying I1 and I2, removeAllUnderlineOfChord
\* returns normally with the chord's parent not an underline, and remove and
\* convertToText return normally.
C19_RemoveAllUnderlineSucceeds ==
    \A p \in Paths(root) :
        (I1Holds(root) /\ I2Holds(root) /\ isChord(NodeAt(root, p))) =>
            /\ StrippedOk(removeAllUnderlineOfChord(SetMark(root, p, "x"), p))
            /\ remove(root, p).ok
            /\ convertToText(root, p, FALSE).ok

\* the node before which insertBefore splices: p, or the outermost enclosing
\* underline reached from p through first children
RECURSIVE OutwardFirst(_, _)
OutwardFirst(kids, p) ==
    IF Len(p) > 1 /\ Last(p) = 1
            /\ NodeAt(kids, Parent(p)).type \in {"Underline", "UnderlinePure"}
    THEN OutwardFirst(kids, Parent(p))
    ELSE p

\* kids with nodes spliced in right in front of the node at path t
SplicedBefore(kids, t, nodes) ==
    LET L == KidsAt(kids, Parent(t))
    IN SetKids(kids, Parent(t),
               SubSeq(L, 1, Last(t) - 1) \o nodes \o SubSeq(L, Last(t), Len(L)))

\* the node at path t is no underline's last child (first child)
NotLastInUnderline(kids, t) ==
    Len(t) > 1 /\ NodeAt(kids, Parent(t)).type \in {"Underline", "UnderlinePure"}
        => Last(t) < Len(KidsAt(kids, Parent(t)))

NotFirstInUnderline(kids, t) ==
    Len(t) > 1 /\ NodeAt(kids, Parent(t)).type \in {"Underline", "UnderlinePure"}
        => Last(t) > 1

\* C20: insertAfter(node, data) splices data, in order, right behind node, or, when
\* node is the last child of an underline, right behind the outermost underline
\* reached from node through last children; insertBefore does the same in front, with
\* first children; the nodes inserted are never the first or the last child of an
\* underline, and every other node stays where it was.
C20_InsertWalksOutOfUnderline ==
    \A p \in Paths(root),
       d \in TextNodeData \cup {<<createTextNode(<<"x">>), createMarkNode(<<"m">>)>>} :
        /\ insertAfter(root, p, d).ok
        /\ insertAfter(root, p, d).tree = SplicedAfter(root, OutwardLast(root, p), d)
        /\ NotLastInUnderline(root, OutwardLast(root, p))
        /\ insertBefore(root, p, d).ok
        /\ insertBefore(root, p, d).tree = SplicedBefore(root, OutwardFirst(root, p), d)
        /\ NotFirstInUnderline(root, OutwardFirst(root, p))

\* a node inserted after the last chord of a nested underline that is itself the
\* last child of an underline: it lies behind the outer underline
C20_Witness ==
    /\ ev.op = "insertAfter" /\ ev.p = <<1, 2, 2>> /\ cursor = 2
    /\ history[1] = <<Ul(<<Ch("a"), Ul(<<Ch("b"), Ch("c")>>)>>), Tx("t")>>
    /\ root = <<Ul(<<Ch("a"), Ul(<<Ch("b"), Ch("c")>>)>>), Tx("x"), Tx("t")>>

\* the nodes of kids that are not underlines, in document order, as they are
RECURSIVE Flatten(_)
Flatten(kids) ==
    IF kids = <<>> THEN <<>>
    ELSE (IF isUnderline(Head(kids)) THEN Flatten(Head(kids).children)
          ELSE <<Head(kids)>>)
         \o Flatten(Tail(kids))

\* n with every chord and underline tag in its subtree exchanged for the tag of the
\* other purity
RECURSIVE SwapTags(_)
SwapTags(n) ==
    [n EXCEPT !.type = CASE n.type = "Chord" -> "ChordPure"
                         [] n.type = "ChordPure" -> "Chord"
                         [] n.type = "Underline" -> "UnderlinePure"
                         [] n.type = "UnderlinePure" -> "Underline"
                         [] OTHER -> n.type,
              !.children = [i \in 1..Len(n.children) |-> SwapTags(n.children[i])]]

\* the tree the purity toggle of the chord at p is to leave
ToggledTree(kids, p) ==
    IF ~isInUnderline(kids, p) THEN SetType(kids, p, OtherPurity(NodeAt(kids, p).type))
    ELSE IF HasNonEmptyText(<<NodeAt(kids, TopUnderline(kids, p))>>)
    THEN ReplacedBy(kids, TopUnderline(kids, p),
                    Flatten(<<NodeAt(SetType(kids, p, OtherPurity(NodeAt(kids, p).type)),
                                     TopUnderline(kids, p))>>))
    ELSE SetNode(kids, TopUnderline(kids, p), SwapTags(NodeAt(kids, TopUnderline(kids, p))))

\* C21: toggleChordType on a chord or pure chord succeeds and leaves this tree: with no
\* enclosing underline, only the node's tag flipped; with a non-space Text anywhere in
\* the outermost enclosing underline, that whole underline subtree dissolved (no
\* underline of it left) and only the node's tag flipped; otherwise every chord and
\* underline tag of that subtree flipped and nothing outside it changed.
C21_ToggleChordType ==
    \A p \in Paths(root) :
        isChord(NodeAt(root, p)) =>
            /\ toggleChordType(root, p).ok
            /\ ClearMarks(toggleChordType(root, p).tree) = ToggledTree(root, p)

\* C22: while a deferred handle is open, a command that returns normally pushes no
\* snapshot; the end() of a handle that brings the counter to zero pushes exactly one
\* snapshot, of the live tree, and an end() that leaves it positive pushes none;
\* fail() on an open handle pushes nothing and sets the live tree to the current
\* snapshot, which is the tree as it was when the open transaction began, so that no
\* change made since the handle was opened is left.
C22_DeferredHandleCommitsOnce ==
    [][ /\ ( /\ \E h \in 1..Len(handles) : ~handles[h]
             /\ ev'.ok
             /\ ev'.op \in {"remove", "removeUnderlineFromChordToNext"} ) =>
              /\ history' = history /\ cursor' = cursor
              /\ lastCb' = "none"
        /\ (ev'.op = "end" /\ ~handles[ev'.p[1]]) =>
              IF count' = 0
              THEN /\ history' = SubSeq(history, 1, cursor) \o <<root>>
                   /\ cursor' = cursor + 1
                   /\ root' = root
              ELSE history' = history /\ cursor' = cursor
        /\ (ev'.op = "fail" /\ ~handles[ev'.p[1]]) =>
              /\ history' = history /\ cursor' = cursor
              /\ root' = history[cursor]
              /\ root' = txRoot ]_vars

\* the end() of the only open handle committed, as one snapshot, an edit made while
\* the handle was open
C22_Witness ==
    /\ ev.op = "end" /\ count = 0 /\ depth = 0 /\ lastCb = "done"
    /\ handles = <<TRUE>>
    /\ cursor = 2 /\ history[2] = root /\ root # history[1]

\* C23: whenever no transaction is open (the counter is zero), after any sequence of
\* commands, setKey, clearSheet, replaceSheet, undo and redo, the live tree is equal to
\* the history's snapshot at the cursor.
C23_LiveTreeIsCurrentSnapshot ==
    count = 0 => root = history[cursor]

\* the loop of removeUnderlineFromPrevToThisChord on the chord at p, as it ends: the
\* chord is still marked "c" in the tree of the result
PrevLoopOf(kids, p) ==
    PrevLoop(MarkPrev(SetMark(kids, p, "c"),
                      findPrevNodeByType(kids, p, NodeAt(kids, p).type)),
             LoopFuel)

\* C24: removeUnderlineFromPrevToThisChord(C) terminates on every tree: for every
\* chord C under an underline its loop, which calls removeUnderlineFromChordToNext on
\* the preceding same-purity chord found once before the loop, either raises or
\* returns with C's parent not an underline; it never goes on with C still nested.
C24_PrevLoopTerminates ==
    \A p \in Paths(root) :
        (isChord(NodeAt(root, p)) /\ parentIsUnderline(root, p)) =>
            /\ ~removeUnderlineFromPrevToThisChord(root, p).hang
            /\ ~PrevLoopOf(root, p).hang
            /\ PrevLoopOf(root, p).ok =>
                   ~parentIsUnderline(PrevLoopOf(root, p).tree,
                                      Marked(PrevLoopOf(root, p).tree, "c"))

\* the loop went round twice and returned: on Underline[a, Underline[b, c]] the call
\* for c dissolved the inner underline, then moved c out of the outer one
C24_Witness ==
    /\ ev.op = "removeUnderlineFromPrevToThisChord" /\ ev.p = <<1, 2, 2>>
    /\ history[cursor - 1] = <<Ul(<<Ch("a"), Ul(<<Ch("b"), Ch("c")>>)>>)>>
    /\ root = <<Ul(<<Ch("a"), Ch("b")>>), Ch("c")>>

\* the handles runAsync returned that are not disposed yet
OpenHandles == {h \in 1..Len(handles) : ~handles[h]}

\* C25: in every reachable state, whatever the interleaving of run() frames returning
\* or raising, runAsync calls and repeated end(), fail() and run() calls on the handles,
\* the counter equals the number of active run() frames plus the number of handles not
\* yet disposed; so it is never negative, and it is zero exactly when no frame and no
\* handle is open.
C25_CounterIsFramesPlusHandles ==
    /\ count = depth + Cardinality(OpenHandles)
    /\ count >= 0
    /\ count = 0 <=> (depth = 0 /\ OpenHandles = {})

\* fail() was called on a handle already disposed, inside a run() frame: the counter
\* still counts that frame alone
C25_Witness ==
    /\ ev.op = "fail" /\ handles[ev.p[1]] /\ lastCb = "none"
    /\ depth = 1 /\ count = 1 /\ OpenHandles = {}

====
